---- MODULE Spec2Model ----
(***************************************************************************)
(* A model of the movie box-office ETL pipeline (src/src/etl.py,           *)
(* src/src/data_model_schemas.py).                                         *)
(*                                                                         *)
(* Python values are tagged records so that any two of them can be         *)
(* compared: None, a string, an integer, a calendar date.  A string is a   *)
(* sequence of characters and whole words, so that str.split, str.replace  *)
(* and the date formats are computed on it.  A DataFrame is the sequence   *)
(* of its rows, a dict with insertion order a sequence of key/value pairs. *)
(***************************************************************************)
EXTENDS Integers, Sequences, FiniteSets, TLC

VARIABLES
    pc,                     \* where run() stands
    hash_seed,              \* this process's str hash: title -> raw hash
    csv,                    \* rows of the revenue file
    revenue_df,             \* run: the rows handed to the pipeline
    distributor_df,         \* run: the distributor dimension
    fact_revenues_df,       \* run: the fact table
    movie_id_dict,          \* run: title -> movie_id, in insertion order
    movies_data,            \* run: the enriched metadata records
    requests_log,           \* the titles asked of the provider, in order
    responses_log,          \* the provider's answer to each of them
    dim_movies_df,          \* run: the movie dimension
    dim_genres_df,          \* run: the genre dimension
    bridge_movie_genre_df,  \* run: the movie-genre bridge
    raised,                 \* the exception that ended run(), or "none"
    save_k,                 \* run: number of tables written so far
    store,                  \* the relational store: table -> contents
    store0,                 \* the store as it was when the process started
    write_log,              \* run: the tables it tried to write, in order
    last_write,             \* table -> the frame of its last write
    prev_write,             \* table -> the frame of the write before that
    calls                   \* number of direct save_to_sqlite calls so far

vars == <<pc, hash_seed, csv, revenue_df, distributor_df, fact_revenues_df,
          movie_id_dict, movies_data, requests_log, responses_log,
          dim_movies_df, dim_genres_df, bridge_movie_genre_df, raised,
          save_k, store, store0, write_log, last_write, prev_write, calls>>

run_vars == <<pc, csv, revenue_df, distributor_df, fact_revenues_df,
              movie_id_dict, movies_data, requests_log, responses_log,
              dim_movies_df, dim_genres_df, bridge_movie_genre_df, raised,
              save_k, write_log>>

-----------------------------------------------------------------------------
(* Bounds of the model *)

\* longest revenue file
MaxRows == 2

\* most direct calls of save_to_sqlite in the store-only specification
MaxSaves == 3

\* width of the movie_id mask (the code masks to 32 bits, which exceeds
\* the integers of the model checker)
HashBits == 4

(* Program constants *)

HEAD_LIMIT == 900

HTTP_OK == 200

-----------------------------------------------------------------------------
(* Python values *)

None == [none |-> TRUE]

Str(s) == [str |-> s]

IntV(n) == [int |-> n]

DateV(y, m, d) == [date |-> <<y, m, d>>]

IsStr(v) == DOMAIN v = {"str"}

NA == Str(<<"N/A">>)

EmptyStr == Str(<<>>)

\* dict.get(key) and dict.get(key, default)
Get(d, k) == IF k \in DOMAIN d THEN d[k] ELSE None

GetD(d, k, default) == IF k \in DOMAIN d THEN d[k] ELSE default

Min(a, b) == IF a <= b THEN a ELSE b

IsPrefix(p, s) == Len(p) <= Len(s) /\ SubSeq(s, 1, Len(p)) = p

Drop(s, n) == SubSeq(s, n + 1, Len(s))

\* str.split(sep), on token sequences: always at least one part
RECURSIVE SplitFrom(_, _, _)
SplitFrom(s, sep, cur) ==
    IF s = <<>> THEN <<cur>>
    ELSE IF IsPrefix(sep, s) THEN <<cur>> \o SplitFrom(Drop(s, Len(sep)), sep, <<>>)
    ELSE SplitFrom(Tail(s), sep, Append(cur, Head(s)))

Split(s, sep) == SplitFrom(s, sep, <<>>)

\* str.replace(old, new): every occurrence, left to right
RECURSIVE Replace(_, _, _)
Replace(s, old, new) ==
    IF s = <<>> THEN <<>>
    ELSE IF IsPrefix(old, s) THEN new \o Replace(Drop(s, Len(old)), old, new)
    ELSE <<Head(s)>> \o Replace(Tail(s), old, new)

\* A string is a sequence of characters; the words the code treats as a
\* whole ("N/A", "min", "True", a month's abbreviation) are one token each.
Digits == {"0", "1", "2", "3", "4", "5", "6", "7", "8", "9"}

DigitVal(c) ==
    CASE c = "0" -> 0 [] c = "1" -> 1 [] c = "2" -> 2 [] c = "3" -> 3
      [] c = "4" -> 4 [] c = "5" -> 5 [] c = "6" -> 6 [] c = "7" -> 7
      [] c = "8" -> 8 [] c = "9" -> 9

IsNumeral(s) == s # <<>> /\ \A i \in DOMAIN s : s[i] \in Digits

RECURSIVE NumeralValue(_)
NumeralValue(s) ==
    IF s = <<>> THEN 0
    ELSE 10 * NumeralValue(SubSeq(s, 1, Len(s) - 1)) + DigitVal(s[Len(s)])

Months == <<"Jan", "Feb", "Mar", "Apr", "May", "Jun",
            "Jul", "Aug", "Sep", "Oct", "Nov", "Dec">>

MonthOf(m) == CHOOSE i \in DOMAIN Months : Months[i] = m

RECURSIVE Flatten(_)
Flatten(ss) == IF ss = <<>> THEN <<>> ELSE Head(ss) \o Flatten(Tail(ss))

Range(s) == {s[i] : i \in DOMAIN s}

-----------------------------------------------------------------------------
(* data_model_schemas.py: TableSchemas *)

TableNames ==
    <<"dim_movies", "dim_genres", "bridge_movie_genre", "dim_distributor",
      "fact_revenues">>

TableSchemas ==
    [dim_movies |->
        [movie_id |-> "Integer", title |-> "String", year |-> "Integer",
         released |-> "Date", runtime_minutes |-> "Integer",
         director |-> "String", writer |-> "String", actors |-> "String",
         plot |-> "Text", language |-> "String", country |-> "String",
         awards |-> "String", ratings |-> "String", metascore |-> "Integer",
         imdb_rating |-> "Float", imdb_votes |-> "Integer",
         box_office_total |-> "String", production |-> "String",
         website |-> "String", poster |-> "String"],
     dim_genres |-> [genre_id |-> "Integer", genre_name |-> "String"],
     bridge_movie_genre |-> [movie_id |-> "Integer", genre_id |-> "Integer"],
     dim_distributor |->
        [distributor_id |-> "Integer", distributor_name |-> "String"],
     fact_revenues |->
        [id |-> "String", movie_id |-> "Integer", revenue |-> "Integer",
         theaters |-> "Float", distributor_id |-> "Integer", date |-> "Date"]]

\* TableSchemas.get_schema: the schema, or ValueError for an unknown name
get_schema(table_name) ==
    IF table_name \in DOMAIN TableSchemas
    THEN [raised |-> "none", schema |-> TableSchemas[table_name]]
    ELSE [raised |-> "ValueError", schema |-> <<>>]

-----------------------------------------------------------------------------
(* etl.py: the distributor dimension *)

\* DataFrame.drop_duplicates(): the first occurrence of each value is kept
RECURSIVE drop_duplicates(_)
drop_duplicates(s) ==
    IF s = <<>> THEN <<>>
    ELSE LET init == drop_duplicates(SubSeq(s, 1, Len(s) - 1))
             last == s[Len(s)]
         IN  IF last \in Range(init) THEN init ELSE Append(init, last)

\* as process_distributors_data, the ids being the bare index
process_distributors_data_zero_based(df) ==
    LET names == drop_duplicates([i \in DOMAIN df |-> df[i].distributor])
    IN  [i \in DOMAIN names |->
            [distributor_name |-> names[i], distributor_id |-> IntV(i - 1)]]

process_distributors_data(df) ==
    LET names == drop_duplicates([i \in DOMAIN df |-> df[i].distributor])
    IN  [i \in DOMAIN names |->
            [distributor_name |-> names[i], distributor_id |-> IntV(i)]]

-----------------------------------------------------------------------------
(* etl.py: the fact table *)

\* hash(t) & 0xffffffff, at the model's width
MovieId(seed, title) == seed[title] % (2 ^ HashBits)

\* pd.to_datetime(...).dt.date of one cell: "YYYY-MM-DD", with or without a
\* time of day after a space; anything else fails
ParseTimestamp(cell) ==
    LET parts == Split(cell.str, <<" ">>)
        ymd   == Split(parts[1], <<"-">>)
        ok    == /\ IsStr(cell)
                 /\ Len(parts) \in {1, 2}
                 /\ Len(ymd) = 3
                 /\ \A i \in 1..3 : IsNumeral(ymd[i])
                 /\ NumeralValue(ymd[2]) \in 1..12
                 /\ NumeralValue(ymd[3]) \in 1..31
    IN  IF ok
        THEN [raised |-> "none",
              date |-> DateV(NumeralValue(ymd[1]), NumeralValue(ymd[2]),
                             NumeralValue(ymd[3]))]
        ELSE [raised |-> "DateParseError", date |-> None]

\* DataFrame.merge(right, left_on=..., right_on=...): inner join, in the
\* order of the left rows
merge(df, right) ==
    Flatten([i \in DOMAIN df |->
        LET hits == SelectSeq(right,
                        LAMBDA d : d.distributor_name = df[i].distributor)
        IN  [j \in DOMAIN hits |->
                [id |-> df[i].id, title |-> df[i].title, date |-> df[i].date,
                 revenue |-> df[i].revenue, theaters |-> df[i].theaters,
                 distributor |-> df[i].distributor,
                 distributor_name |-> hits[j].distributor_name,
                 distributor_id |-> hits[j].distributor_id]]])

\* as dict_zip, the pairs being kept as a list
dict_zip_pairs(ks, vs) == [i \in DOMAIN ks |-> [key |-> ks[i], value |-> vs[i]]]

\* dict(zip(keys, values)): a key keeps the place of its first occurrence
\* and the value of its last
RECURSIVE dict_zip(_, _)
dict_zip(ks, vs) ==
    IF ks = <<>> THEN <<>>
    ELSE LET init == dict_zip(SubSeq(ks, 1, Len(ks) - 1), SubSeq(vs, 1, Len(vs) - 1))
             k == ks[Len(ks)]
             v == vs[Len(vs)]
         IN  IF \E i \in DOMAIN init : init[i].key = k
             THEN [i \in DOMAIN init |->
                      IF init[i].key = k THEN [key |-> k, value |-> v] ELSE init[i]]
             ELSE Append(init, [key |-> k, value |-> v])

process_revenue_data(seed, df, dist_df) ==
    LET joined == merge(df, dist_df)
        ids    == [i \in DOMAIN joined |-> MovieId(seed, joined[i].title)]
        dates  == [i \in DOMAIN joined |-> ParseTimestamp(joined[i].date)]
    IN  IF \E i \in DOMAIN joined : dates[i].raised # "none"
        THEN [raised |-> "DateParseError", revenue_df |-> <<>>, movie_id_dict |-> <<>>]
        ELSE [raised |-> "none",
              revenue_df |->
                [i \in DOMAIN joined |->
                    [id |-> joined[i].id, movie_id |-> IntV(ids[i]),
                     revenue |-> joined[i].revenue,
                     theaters |-> joined[i].theaters,
                     distributor_id |-> joined[i].distributor_id,
                     date |-> dates[i].date]],
              movie_id_dict |->
                dict_zip([i \in DOMAIN joined |-> joined[i].title], ids)]

-----------------------------------------------------------------------------
(* etl.py: the metadata provider *)

\* as get_movie_data, the status code not being looked at
get_movie_data_any_status(response) ==
    LET data == response.json
    IN  IF Get(data, "Response") = Str(<<"True">>) THEN data ELSE None

\* get_movie_data: the body of a response with status 200 whose Response
\* field is "True", and None for any other response
get_movie_data(response) ==
    IF response.status_code = HTTP_OK
    THEN LET data == response.json
         IN  IF Get(data, "Response") = Str(<<"True">>) THEN data ELSE None
    ELSE None

\* truth value of what get_movie_data returns: None and {} are false
Truthy(data) == data # None /\ DOMAIN data # {}

\* as Tagged, under a misspelt key
Tagged_wrong_key(data, movie_id) ==
    [k \in DOMAIN data \cup {"movieId"} |->
        IF k = "movieId" THEN IntV(movie_id) ELSE data[k]]

\* {**data, "movie_id": movie_id}
Tagged(data, movie_id) ==
    [k \in DOMAIN data \cup {"movie_id"} |->
        IF k = "movie_id" THEN IntV(movie_id) ELSE data[k]]

\* one iteration of the comprehension of fetch_ombdapi_data
fetch_step(acc, movie_id, response) ==
    LET data == get_movie_data(response)
    IN  IF Truthy(data) THEN Append(acc, Tagged(data, movie_id)) ELSE acc

-----------------------------------------------------------------------------
(* etl.py: the movie dimension, the genre dimension and the bridge *)

\* pd.to_datetime(s, format="%d %b %Y").date()
strptime_dby(v) ==
    LET parts == Split(v.str, <<" ">>)
        ok == /\ IsStr(v)
              /\ Len(parts) = 3
              /\ IsNumeral(parts[1]) /\ Len(parts[1]) \in {1, 2}
              /\ NumeralValue(parts[1]) \in 1..31
              /\ Len(parts[2]) = 1 /\ parts[2][1] \in Range(Months)
              /\ IsNumeral(parts[3]) /\ Len(parts[3]) = 4
    IN  IF v = None THEN [raised |-> "AttributeError", date |-> None]
        ELSE IF ok
        THEN [raised |-> "none",
              date |-> DateV(NumeralValue(parts[3]), MonthOf(parts[2][1]),
                             NumeralValue(parts[1]))]
        ELSE [raised |-> "ValueError", date |-> None]

\* str.replace on a value that may be None
str_replace(v, old, new) ==
    IF IsStr(v) THEN [raised |-> "none", value |-> Str(Replace(v.str, old, new))]
    ELSE [raised |-> "AttributeError", value |-> None]

\* json.dumps of the list of rating sources
RECURSIVE dumps_items(_)
dumps_items(items) ==
    IF items = <<>> THEN <<>>
    ELSE <<"{">> \o Head(items).Source \o <<":">> \o Head(items).Value \o <<"}">>
         \o (IF Len(items) > 1 THEN <<",", " ">> ELSE <<>>)
         \o dumps_items(Tail(items))

json_dumps(ratings) == Str(<<"[">> \o dumps_items(ratings.list) \o <<"]">>)

FirstRaised(s) ==
    IF \E i \in DOMAIN s : s[i] # "none"
    THEN s[CHOOSE i \in DOMAIN s :
               s[i] # "none" /\ \A j \in 1..(i - 1) : s[j] = "none"]
    ELSE "none"

\* the row appended to dim_movies for one record
movie_row(data) ==
    LET released == IF Get(data, "Released") # NA
                    THEN strptime_dby(Get(data, "Released"))
                    ELSE [raised |-> "none", date |-> None]
        runtime  == IF Get(data, "Runtime") # NA
                    THEN str_replace(GetD(data, "Runtime", None), <<" ", "min">>, <<>>)
                    ELSE [raised |-> "none", value |-> None]
        votes    == str_replace(Get(data, "imdbVotes"), <<",">>, <<>>)
        box      == IF Get(data, "BoxOffice") # NA
                    THEN Str(Replace(Replace(GetD(data, "BoxOffice", EmptyStr).str,
                                             <<"$">>, <<>>), <<",">>, <<>>))
                    ELSE None
    IN  [raised |-> FirstRaised(<<released.raised, runtime.raised, votes.raised>>),
         row |->
            [movie_id |-> Get(data, "movie_id"),
             title |-> Get(data, "Title"),
             year |-> Get(data, "Year"),
             released |-> released.date,
             runtime_minutes |-> runtime.value,
             director |-> Get(data, "Director"),
             writer |-> Get(data, "Writer"),
             actors |-> Get(data, "Actors"),
             plot |-> Get(data, "Plot"),
             language |-> Get(data, "Language"),
             country |-> Get(data, "Country"),
             awards |-> Get(data, "Awards"),
             ratings |-> json_dumps(GetD(data, "Ratings", [list |-> <<>>])),
             metascore |-> Get(data, "Metascore"),
             imdb_rating |-> IF Get(data, "imdbRating") # NA
                             THEN Get(data, "imdbRating") ELSE None,
             imdb_votes |-> votes.value,
             box_office_total |-> box,
             production |-> Get(data, "Production"),
             website |-> Get(data, "Website"),
             poster |-> Get(data, "Poster")]]

DictHas(d, k) == \E i \in DOMAIN d : d[i].key = k

DictGet(d, k) == d[CHOOSE i \in DOMAIN d : d[i].key = k].value

\* as genre_step, a new genre getting the number of genres seen before it
genre_step_len_id(acc, movie_id, genre) ==
    LET seen == IF genre # <<>> /\ ~DictHas(acc.dim_genres, genre)
                THEN Append(acc.dim_genres,
                            [key |-> genre, value |-> Len(acc.dim_genres)])
                ELSE acc.dim_genres
    IN  IF DictHas(seen, genre)
        THEN [acc EXCEPT !.dim_genres = seen,
                         !.bridge_movie_genre =
                            Append(@, [movie_id |-> movie_id,
                                       genre_id |-> IntV(DictGet(seen, genre))])]
        ELSE [acc EXCEPT !.dim_genres = seen, !.raised = "KeyError"]

\* as genre_step, the link taking the next free id instead of the genre's
genre_step_fresh_link(acc, movie_id, genre) ==
    LET seen == IF genre # <<>> /\ ~DictHas(acc.dim_genres, genre)
                THEN Append(acc.dim_genres,
                            [key |-> genre, value |-> Len(acc.dim_genres) + 1])
                ELSE acc.dim_genres
    IN  IF DictHas(seen, genre)
        THEN [acc EXCEPT !.dim_genres = seen,
                         !.bridge_movie_genre =
                            Append(@, [movie_id |-> movie_id,
                                       genre_id |-> IntV(Len(acc.dim_genres) + 1)])]
        ELSE [acc EXCEPT !.dim_genres = seen, !.raised = "KeyError"]

\* one iteration of the loop over a record's genres
genre_step(acc, movie_id, genre) ==
    LET seen == IF genre # <<>> /\ ~DictHas(acc.dim_genres, genre)
                THEN Append(acc.dim_genres,
                            [key |-> genre, value |-> Len(acc.dim_genres) + 1])
                ELSE acc.dim_genres
    IN  IF DictHas(seen, genre)
        THEN [acc EXCEPT !.dim_genres = seen,
                         !.bridge_movie_genre =
                            Append(@, [movie_id |-> movie_id,
                                       genre_id |-> IntV(DictGet(seen, genre))])]
        ELSE [acc EXCEPT !.dim_genres = seen, !.raised = "KeyError"]

RECURSIVE genre_loop(_, _, _)
genre_loop(acc, movie_id, genres) ==
    IF genres = <<>> \/ acc.raised # "none" THEN acc
    ELSE genre_loop(genre_step(acc, movie_id, Head(genres)), movie_id, Tail(genres))

\* one iteration of the loop over the records
movie_step(acc, data) ==
    LET genres == Split(GetD(data, "Genre", EmptyStr).str, <<",", " ">>)
        linked == genre_loop(acc, Get(data, "movie_id"), genres)
        made   == movie_row(data)
    IN  IF linked.raised # "none" THEN linked
        ELSE IF made.raised # "none" THEN [linked EXCEPT !.raised = made.raised]
        ELSE [linked EXCEPT !.dim_movies = Append(@, made.row)]

RECURSIVE movie_loop(_, _)
movie_loop(acc, records) ==
    IF records = <<>> \/ acc.raised # "none" THEN acc
    ELSE movie_loop(movie_step(acc, Head(records)), Tail(records))

\* as replace_sentinels, the empty string being left alone
replace_sentinels_na_only(row) ==
    [c \in DOMAIN row |-> IF row[c] = NA THEN None ELSE row[c]]

\* DataFrame.replace(['N/A', ''], None), on one row
replace_sentinels(row) ==
    [c \in DOMAIN row |-> IF row[c] \in {NA, EmptyStr} THEN None ELSE row[c]]

process_movies_data(records) ==
    LET done == movie_loop([raised |-> "none", dim_genres |-> <<>>,
                            dim_movies |-> <<>>, bridge_movie_genre |-> <<>>],
                           records)
    IN  IF done.raised # "none"
        THEN [raised |-> done.raised, dim_movies_df |-> <<>>,
              dim_genres_df |-> <<>>, bridge_movie_genre_df |-> <<>>]
        ELSE [raised |-> "none",
              dim_movies_df |->
                [i \in DOMAIN done.dim_movies |->
                    replace_sentinels(done.dim_movies[i])],
              dim_genres_df |->
                [i \in DOMAIN done.dim_genres |->
                    [genre_id |-> IntV(done.dim_genres[i].value),
                     genre_name |-> Str(done.dim_genres[i].key)]],
              bridge_movie_genre_df |-> done.bridge_movie_genre]

-----------------------------------------------------------------------------
(* etl.py: persistence *)

Absent == [absent |-> TRUE]

Table(rows) == [rows |-> rows]

RECURSIVE ToDigits(_)
ToDigits(n) ==
    LET d == CHOOSE c \in Digits : DigitVal(c) = n % 10
    IN  IF n < 10 THEN <<d>> ELSE Append(ToDigits(n \div 10), d)

IsDecimal(s) ==
    LET parts == Split(s, <<".">>)
    IN  Len(parts) = 2 /\ IsNumeral(parts[1]) /\ IsNumeral(parts[2])

\* what the store keeps of one cell written to a column of the declared
\* type; "TypeError" when the type does not accept the value
cast_cell(type, v) ==
    CASE type = "Integer" ->
            IF IsStr(v) /\ IsNumeral(v.str) THEN IntV(NumeralValue(v.str)) ELSE v
      [] type = "Float" ->
            IF IsStr(v) /\ IsNumeral(v.str) THEN [real |-> <<v.str, <<>>>>]
            ELSE IF IsStr(v) /\ IsDecimal(v.str)
            THEN [real |-> Split(v.str, <<".">>)]
            ELSE IF DOMAIN v = {"int"} /\ v.int >= 0
            THEN [real |-> <<ToDigits(v.int), <<>>>>]
            ELSE v
      [] type \in {"String", "Text"} ->
            IF DOMAIN v = {"int"} /\ v.int >= 0 THEN Str(ToDigits(v.int)) ELSE v
      [] type = "Date" ->
            IF DOMAIN v \in {{"date"}, {"none"}} THEN v ELSE [error |-> "TypeError"]

cast_row(schema, row) ==
    [c \in DOMAIN row |->
        IF c \in DOMAIN schema THEN cast_cell(schema[c], row[c]) ELSE row[c]]

cast_rows(schema, df) == [i \in DOMAIN df |-> cast_row(schema, df[i])]

CastFails(rows) ==
    \E i \in DOMAIN rows : \E c \in DOMAIN rows[i] : DOMAIN rows[i][c] = {"error"}

\* as to_sql_replace, with if_exists="append"
to_sql_append(db, table_name, rows) ==
    [db EXCEPT ![table_name] =
        IF @ = Absent THEN Table(rows) ELSE Table(@.rows \o rows)]

\* DataFrame.to_sql(table_name, conn, if_exists="replace", dtype=schema)
\* when the engine accepts the write
to_sql_replace(db, table_name, rows) == [db EXCEPT ![table_name] = Table(rows)]

\* save_to_sqlite when the engine accepts the write: the exception raised
\* ("none" if none) and the store afterwards
save_to_sqlite(db, df, table_name) ==
    LET found == get_schema(table_name)
        rows  == cast_rows(found.schema, df)
    IN  IF found.raised # "none" THEN [raised |-> found.raised, store |-> db]
        ELSE IF CastFails(rows) THEN [raised |-> "StatementError", store |-> db]
        ELSE [raised |-> "none", store |-> to_sql_replace(db, table_name, rows)]

\* what a write that the engine rejects may leave of the table: the drop
\* of the old table may or may not have taken effect
AfterFailedWrite(db, table_name) ==
    IF table_name \in DOMAIN db
    THEN {db, [db EXCEPT ![table_name] = Absent]}
    ELSE {db}

-----------------------------------------------------------------------------
(* Inputs *)

Titles == {"A", "B"}

Distributors == {Str(<<"X">>), Str(<<"Y">>)}

DateCells ==
    {Str(<<"2", "0", "2", "0", "-", "1", "2", "-", "2", "5", " ", "10:00">>),
     Str(<<"soon">>)}

\* raw values of hash(title): the first two agree on the masked bits
RawHashes == {3, -29, 4}

CsvRow(i, title, distributor, date) ==
    [id |-> Str(<<"r">> \o ToDigits(i)), title |-> title, date |-> date,
     revenue |-> IntV(100), theaters |-> IntV(10), distributor |-> distributor]

CsvFiles ==
    {[i \in DOMAIN f |-> CsvRow(i, f[i][1], f[i][2], f[i][3])] :
        f \in UNION {[1..n -> Titles \X Distributors \X DateCells] : n \in 0..MaxRows}}

Word(w) == Str(<<w>>)

FoundBody(title) ==
    [Response |-> Word("True"), Title |-> Word(title),
     Year |-> Str(<<"2", "0", "2", "0">>),
     Released |-> Str(<<"2", "5", " ", "Dec", " ", "2", "0", "2", "0">>),
     Runtime |-> Str(<<"1", "4", "8", " ", "min">>),
     Director |-> Word("Nolan"), Writer |-> Word("Nolan"),
     Actors |-> Word("Cast"), Plot |-> Word("Plot"),
     Language |-> Word("English"), Country |-> Word("USA"),
     Awards |-> Word("Oscar"),
     Ratings |-> [list |-> <<[Source |-> <<"IMDb">>, Value |-> <<"8", ".", "8">>]>>],
     Metascore |-> Str(<<"7", "4">>),
     imdbRating |-> Str(<<"8", ".", "8">>),
     imdbVotes |-> Str(<<"1", ",", "2", "3", "4">>),
     BoxOffice |-> Str(<<"$", "1", ",", "0", "0", "0">>),
     Production |-> Word("Studio"), Website |-> Word("site"),
     Poster |-> Word("poster"),
     Genre |-> Str(<<"Drama", ",", " ", "War">>)]

SparseBody(title) ==
    [FoundBody(title) EXCEPT
        !.Released = NA, !.Runtime = NA, !.Director = NA, !.Awards = NA,
        !.Ratings = [list |-> <<>>], !.Metascore = NA, !.imdbRating = NA,
        !.imdbVotes = NA, !.BoxOffice = NA, !.Production = NA,
        !.Website = EmptyStr, !.Poster = NA,
        !.Genre = Str(<<"War", ",", " ", "Comedy">>)]

Without(d, k) == [x \in DOMAIN d \ {k} |-> d[x]]

NotFoundBody == [Response |-> Word("False"), Error |-> Word("Movie not found!")]

\* what the provider may answer when asked for a title
Responses(title) ==
    {[status_code |-> 200, json |-> b] :
        b \in {FoundBody(title), SparseBody(title),
               [FoundBody(title) EXCEPT !.Genre = EmptyStr],
               [FoundBody(title) EXCEPT !.Genre = Str(<<"Drama", ",", " ">>)],
               Without(FoundBody(title), "Genre"),
               NotFoundBody}}
    \cup {[status_code |-> 503, json |-> FoundBody(title)]}

EmptyStore == [t \in Range(TableNames) |-> Absent]

\* the five frames of a run over the rows df with the given answers, and
\* the store such a run leaves behind an empty one
FramesOf(seed, df, records) ==
    LET dist   == process_distributors_data(df)
        rev    == process_revenue_data(seed, df, dist)
        movies == process_movies_data(records)
    IN  [dim_movies |-> movies.dim_movies_df,
         dim_genres |-> movies.dim_genres_df,
         bridge_movie_genre |-> movies.bridge_movie_genre_df,
         dim_distributor |-> dist,
         fact_revenues |-> rev.revenue_df]

StoreOf(frames) ==
    [t \in Range(TableNames) |-> Table(cast_rows(TableSchemas[t], frames[t]))]

\* what an earlier run over other data has left
StaleFrames ==
    FramesOf([t \in {"Z"} |-> 9],
             <<CsvRow(7, "Z", Word("Z"), Str(<<"2", "0", "1", "9", "-", "1", "-", "1">>))>>,
             <<Tagged([FoundBody("Z") EXCEPT !.Genre = Word("Horror")], 9)>>)

StaleStore == StoreOf(StaleFrames)

\* frames a caller may hand to save_to_sqlite directly
OtherFrames ==
    FramesOf([t \in Titles |-> IF t = "A" THEN 3 ELSE 4],
             <<CsvRow(1, "A", Word("X"), Str(<<"2", "0", "2", "0", "-", "1", "2", "-", "2", "5">>)),
               CsvRow(2, "B", Word("Y"), Str(<<"2", "0", "2", "0", "-", "1", "2", "-", "2", "5">>))>>,
             <<Tagged(SparseBody("A"), 3), Tagged(FoundBody("B"), 4)>>)

\* a fact frame whose date column was never parsed
RawFactFrame ==
    <<[id |-> Word("r1"), movie_id |-> IntV(3), revenue |-> IntV(100),
       theaters |-> IntV(10), distributor_id |-> IntV(1), date |-> Word("soon")]>>

DirectTables == Range(TableNames) \cup {"dim_actors"}

DirectFrames(t) ==
    IF t \in Range(TableNames)
    THEN {<<>>, StaleFrames[t], OtherFrames[t]}
         \cup (IF t = "fact_revenues" THEN {RawFactFrame} ELSE {})
    ELSE {<<>>}

Never == [never |-> TRUE]

Failed == [failed |-> TRUE]

Wrote(df) == [df |-> df]

-----------------------------------------------------------------------------
(* The state machine *)

Init ==
    /\ pc = "idle"
    /\ hash_seed \in [Titles -> RawHashes]
    /\ csv = <<>>
    /\ revenue_df = <<>>
    /\ distributor_df = <<>>
    /\ fact_revenues_df = <<>>
    /\ movie_id_dict = <<>>
    /\ movies_data = <<>>
    /\ requests_log = <<>>
    /\ responses_log = <<>>
    /\ dim_movies_df = <<>>
    /\ dim_genres_df = <<>>
    /\ bridge_movie_genre_df = <<>>
    /\ raised = "none"
    /\ save_k = 0
    /\ store \in {EmptyStore, StaleStore}
    /\ store0 = store
    /\ write_log = <<>>
    /\ last_write = [t \in Range(TableNames) |-> Never]
    /\ prev_write = [t \in Range(TableNames) |-> Never]
    /\ calls = 0

\* DataFrame.head(n)
head(df, n) == SubSeq(df, 1, Min(Len(df), n))

\* run, line 190: the revenue file is read and cut to its first rows
FetchRevenues ==
    /\ pc = "idle"
    /\ \E f \in CsvFiles :
        /\ csv' = f
        /\ revenue_df' = head(f, HEAD_LIMIT)
    /\ pc' = "distributors"
    /\ UNCHANGED <<hash_seed, distributor_df, fact_revenues_df, movie_id_dict,
                   movies_data, requests_log, responses_log, dim_movies_df,
                   dim_genres_df, bridge_movie_genre_df, raised, save_k, store,
                   store0, write_log, last_write, prev_write, calls>>

\* run, line 192
ProcessDistributors ==
    /\ pc = "distributors"
    /\ distributor_df' = process_distributors_data(revenue_df)
    /\ pc' = "revenue"
    /\ UNCHANGED <<hash_seed, csv, revenue_df, fact_revenues_df, movie_id_dict,
                   movies_data, requests_log, responses_log, dim_movies_df,
                   dim_genres_df, bridge_movie_genre_df, raised, save_k, store,
                   store0, write_log, last_write, prev_write, calls>>

\* run, line 193: an unparsable date ends the run
ProcessRevenue ==
    /\ pc = "revenue"
    /\ LET r == process_revenue_data(hash_seed, revenue_df, distributor_df)
       IN  /\ fact_revenues_df' = r.revenue_df
           /\ movie_id_dict' = r.movie_id_dict
           /\ raised' = r.raised
           /\ pc' = IF r.raised = "none" THEN "fetch" ELSE "aborted"
    /\ UNCHANGED <<hash_seed, csv, revenue_df, distributor_df, movies_data,
                   requests_log, responses_log, dim_movies_df, dim_genres_df,
                   bridge_movie_genre_df, save_k, store, store0, write_log,
                   last_write, prev_write,
                   calls>>

\* run, line 195: one title of fetch_ombdapi_data, the provider answering
FetchOne ==
    /\ pc = "fetch"
    /\ Len(requests_log) < Len(movie_id_dict)
    /\ LET item == movie_id_dict[Len(requests_log) + 1]
       IN  \E response \in Responses(item.key) :
            /\ requests_log' = Append(requests_log, item.key)
            /\ responses_log' = Append(responses_log, response)
            /\ movies_data' = fetch_step(movies_data, item.value, response)
    /\ UNCHANGED <<pc, hash_seed, csv, revenue_df, distributor_df,
                   fact_revenues_df, movie_id_dict, dim_movies_df,
                   dim_genres_df, bridge_movie_genre_df, raised, save_k, store,
                   store0, write_log, last_write, prev_write, calls>>

\* run, line 196: an exception of process_movies_data ends the run
ProcessMovies ==
    /\ pc = "fetch"
    /\ Len(requests_log) = Len(movie_id_dict)
    /\ LET r == process_movies_data(movies_data)
       IN  /\ dim_movies_df' = r.dim_movies_df
           /\ dim_genres_df' = r.dim_genres_df
           /\ bridge_movie_genre_df' = r.bridge_movie_genre_df
           /\ raised' = r.raised
           /\ pc' = IF r.raised = "none" THEN "save" ELSE "aborted"
    /\ UNCHANGED <<hash_seed, csv, revenue_df, distributor_df,
                   fact_revenues_df, movie_id_dict, movies_data, requests_log,
                   responses_log, save_k, store, store0, write_log,
                   last_write, prev_write,
                   calls>>

\* the frames run writes, by table name (lines 198-204)
RunFrames ==
    [dim_movies |-> dim_movies_df,
     dim_genres |-> dim_genres_df,
     bridge_movie_genre |-> bridge_movie_genre_df,
     dim_distributor |-> distributor_df,
     fact_revenues |-> fact_revenues_df]

\* as after_save, the exception being swallowed
after_save_continue(k, exception) ==
    IF k = Len(TableNames) THEN "done" ELSE "save"

\* where run stands after its k-th save_to_sqlite call: an exception is
\* not caught
after_save(k, exception) ==
    IF exception # "none" THEN "aborted"
    ELSE IF k = Len(TableNames) THEN "done" ELSE "save"

Saved(t, df) ==
    /\ last_write' = [last_write EXCEPT ![t] = Wrote(df)]
    /\ prev_write' = [prev_write EXCEPT ![t] = last_write[t]]

NotSaved(t) ==
    IF t \in DOMAIN last_write
    THEN /\ last_write' = [last_write EXCEPT ![t] = Failed]
         /\ prev_write' = [prev_write EXCEPT ![t] = last_write[t]]
    ELSE UNCHANGED <<last_write, prev_write,
                   calls>>

\* run, lines 198-205: the next table is written
SaveTable ==
    /\ pc = "save"
    /\ LET t == TableNames[save_k + 1]
           r == save_to_sqlite(store, RunFrames[t], t)
       IN  /\ store' = r.store
           /\ raised' = r.raised
           /\ write_log' = Append(write_log, t)
           /\ save_k' = IF r.raised = "none" THEN save_k + 1 ELSE save_k
           /\ pc' = after_save(save_k + 1, r.raised)
           /\ IF r.raised = "none" THEN Saved(t, RunFrames[t]) ELSE NotSaved(t)
    /\ UNCHANGED <<hash_seed, csv, revenue_df, distributor_df,
                   fact_revenues_df, movie_id_dict, movies_data, requests_log,
                   responses_log, dim_movies_df, dim_genres_df,
                   bridge_movie_genre_df, store0, calls>>

\* run, lines 198-205: the engine rejects the write of the next table
SaveRejected ==
    /\ pc = "save"
    /\ LET t == TableNames[save_k + 1]
       IN  /\ store' \in AfterFailedWrite(store, t)
           /\ raised' = "OperationalError"
           /\ write_log' = Append(write_log, t)
           /\ pc' = after_save(save_k + 1, "OperationalError")
           /\ NotSaved(t)
    /\ UNCHANGED <<hash_seed, csv, revenue_df, distributor_df,
                   fact_revenues_df, movie_id_dict, movies_data, requests_log,
                   responses_log, dim_movies_df, dim_genres_df,
                   bridge_movie_genre_df, save_k, store0, calls>>

Next ==
    \/ FetchRevenues
    \/ ProcessDistributors
    \/ ProcessRevenue
    \/ FetchOne
    \/ ProcessMovies
    \/ SaveTable
    \/ SaveRejected

Spec == Init /\ [][Next]_vars

\* save_to_sqlite called on its own, with any table name
SaveDirect ==
    /\ pc = "idle"
    /\ calls < MaxSaves
    /\ calls' = calls + 1
    /\ \E t \in DirectTables : \E df \in DirectFrames(t) :
        LET r == save_to_sqlite(store, df, t)
        IN  /\ store' = r.store
            /\ IF r.raised = "none" THEN Saved(t, df) ELSE NotSaved(t)
    /\ UNCHANGED <<run_vars, hash_seed, store0>>

SaveDirectRejected ==
    /\ pc = "idle"
    /\ calls < MaxSaves
    /\ calls' = calls + 1
    /\ \E t \in Range(TableNames) :
        /\ store' \in AfterFailedWrite(store, t)
        /\ NotSaved(t)
    /\ UNCHANGED <<run_vars, hash_seed, store0>>

NextSave == SaveDirect \/ SaveDirectRejected

\* the hash seed plays no part in save_to_sqlite
InitSave == Init /\ hash_seed = [t \in Titles |-> 3]

SpecSave == InitSave /\ [][NextSave]_vars

-----------------------------------------------------------------------------
(* Properties *)

\* process_revenue_data has returned in this run
RevenueReturned ==
    \/ pc \in {"fetch", "save", "done"}
    \/ pc = "aborted" /\ raised # "DateParseError"

\* what a failed write raises in run
SaveErrors == {"OperationalError", "StatementError"}

\* process_movies_data has returned in this run
MoviesReturned ==
    \/ pc \in {"save", "done"}
    \/ pc = "aborted" /\ raised \in SaveErrors

\* the provider resolved the i-th title it was asked for
Resolved(i) ==
    /\ responses_log[i].status_code = 200
    /\ "Response" \in DOMAIN responses_log[i].json
    /\ responses_log[i].json.Response = Str(<<"True">>)

Indices(s) == [i \in DOMAIN s |-> i]

ResolvedIndices == SelectSeq(Indices(responses_log), Resolved)

FirstIndex(s, x) == CHOOSE i \in DOMAIN s : s[i] = x /\ \A j \in 1..(i - 1) : s[j] # x

\* s lists each member of Range(all) once, in the order of first occurrence
FirstSeenOrder(s, all) ==
    /\ Range(s) = Range(all)
    /\ \A i, j \in DOMAIN s :
        i < j => s[i] # s[j] /\ FirstIndex(all, s[i]) < FirstIndex(all, s[j])

\* C1: the distributor dimension holds each distinct distributor name of
\* the revenue records exactly once, its ids are exactly 1..N, and id k
\* belongs to the k-th distinct name in order of first occurrence.
C1_DistributorIds ==
    pc \notin {"idle", "distributors"} =>
        /\ \A i \in DOMAIN distributor_df : distributor_df[i].distributor_id = IntV(i)
        /\ FirstSeenOrder([i \in DOMAIN distributor_df |->
                              distributor_df[i].distributor_name],
                          [i \in DOMAIN revenue_df |-> revenue_df[i].distributor])

C1_Witness ==
    /\ pc = "revenue"
    /\ Len(revenue_df) = 2
    /\ revenue_df[1].distributor = revenue_df[2].distributor
    /\ Len(distributor_df) = 1

\* the genre names of the enriched records, in the order they are met
GenreNamesMet ==
    SelectSeq(
        Flatten([i \in DOMAIN movies_data |->
            Split(GetD(movies_data[i], "Genre", EmptyStr).str, <<",", " ">>)]),
        LAMBDA g : g # <<>>)

\* C2: the genre dimension has ids exactly 1..G, id k belonging to the
\* k-th distinct non-empty genre name in first-seen order across the whole
\* list of records, whichever movie it was first seen on.
C2_GenreIds ==
    MoviesReturned =>
        /\ \A i \in DOMAIN dim_genres_df : dim_genres_df[i].genre_id = IntV(i)
        /\ FirstSeenOrder([i \in DOMAIN dim_genres_df |->
                              dim_genres_df[i].genre_name.str],
                          GenreNamesMet)

C2_Witness ==
    /\ MoviesReturned
    /\ Len(movies_data) = 2
    /\ Len(GenreNamesMet) = 4
    /\ Len(dim_genres_df) = 3

\* C3: every bridge row's genre_id is the genre_id of a row of the genre
\* dimension and its movie_id the movie_id of a row of the movie dimension.
C3_BridgeReferences ==
    MoviesReturned =>
        \A b \in Range(bridge_movie_genre_df) :
            /\ \E g \in Range(dim_genres_df) : g.genre_id = b.genre_id
            /\ \E m \in Range(dim_movies_df) : m.movie_id = b.movie_id

C3_Witness ==
    /\ MoviesReturned
    /\ Len(bridge_movie_genre_df) = 4
    /\ Len(dim_genres_df) = 3
    /\ Len(dim_movies_df) = 2

\* C4: the provider is asked once per title of the mapping, in mapping
\* order; the records returned are exactly the answers with status 200 and
\* Response "True", in that order, each with its title's movie_id added;
\* any other answer is skipped, raises nothing and stops no later lookup.
C4_FetchKeepsResolved ==
    /\ Len(requests_log) <= Len(movie_id_dict)
    /\ \A i \in DOMAIN requests_log : requests_log[i] = movie_id_dict[i].key
    /\ Len(movies_data) = Len(ResolvedIndices)
    /\ \A k \in DOMAIN movies_data :
        LET i == ResolvedIndices[k]
            body == responses_log[i].json
        IN  /\ DOMAIN movies_data[k] = DOMAIN body \cup {"movie_id"}
            /\ \A f \in DOMAIN body : movies_data[k][f] = body[f]
            /\ movies_data[k].movie_id = IntV(movie_id_dict[i].value)
    /\ pc = "fetch" => raised = "none"
    /\ pc \in {"save", "done"} \/ (pc = "aborted" /\ raised # "DateParseError")
        => Len(requests_log) = Len(movie_id_dict)

C4_Witness ==
    /\ pc = "save"
    /\ Len(requests_log) = 2
    /\ responses_log[1].status_code = 503
    /\ Resolved(2)
    /\ Len(movies_data) = 1

\* C5: each table holds exactly the rows of the last write to it, as the
\* store keeps them, and a table never written holds what it held before.
C5_LastWriteWins ==
    \A t \in Range(TableNames) :
        /\ DOMAIN last_write[t] = {"df"} =>
            store[t] = Table(cast_rows(TableSchemas[t], last_write[t].df))
        /\ last_write[t] = Never => store[t] = store0[t]

C5_Witness ==
    \E t, u \in Range(TableNames) :
        /\ DOMAIN prev_write[t] = {"df"} /\ prev_write[t].df # <<>>
        /\ DOMAIN last_write[t] = {"df"} /\ last_write[t].df # <<>>
        /\ last_write[t].df # prev_write[t].df
        /\ last_write[u] = Never /\ store0[u] # Absent

StoredRows(t) == IF store[t] = Absent THEN <<>> ELSE store[t].rows

\* the title of the revenue record a fact row was made from
TitleOf(fact) == (CHOOSE r \in Range(revenue_df) : r.id = fact.id).title

TitleResolved(title) ==
    \E i \in DOMAIN requests_log : requests_log[i] = title /\ Resolved(i)

DistributorsResolve ==
    \A f \in Range(StoredRows("fact_revenues")) :
        \E d \in Range(StoredRows("dim_distributor")) :
            d.distributor_id = f.distributor_id

\* C6, as claimed: at the end of every completed run every fact row's
\* distributor_id is the id of a stored dim_distributor row and every fact
\* row's movie_id is the movie_id of a stored dim_movies row.
C6_FactReferences ==
    pc = "done" =>
        /\ DistributorsResolve
        /\ \A f \in Range(StoredRows("fact_revenues")) :
            \E m \in Range(StoredRows("dim_movies")) : m.movie_id = f.movie_id

\* C6, amended: at the end of every completed run every fact row's
\* distributor_id is the id of a stored dim_distributor row, and the
\* movie_id of every fact row whose title the provider resolved is the
\* movie_id of a stored dim_movies row.
C6_FactReferencesResolved ==
    pc = "done" =>
        /\ \A t \in Range(TableNames) :
            store[t] = Table(cast_rows(TableSchemas[t], RunFrames[t]))
        /\ DistributorsResolve
        /\ \A f \in Range(StoredRows("fact_revenues")) :
            TitleResolved(TitleOf(f)) =>
                \E m \in Range(StoredRows("dim_movies")) : m.movie_id = f.movie_id

C6_Witness ==
    /\ pc = "done"
    /\ Len(StoredRows("fact_revenues")) = 2
    /\ Len(StoredRows("dim_distributor")) = 2
    /\ \E f, g \in Range(StoredRows("fact_revenues")) :
        /\ TitleResolved(TitleOf(f))
        /\ ~TitleResolved(TitleOf(g))
        /\ \A m \in Range(StoredRows("dim_movies")) : m.movie_id # g.movie_id

\* C7: the fact table has one row for each revenue record, with the
\* movie_id of its title, whether or not the provider resolved the title;
\* the movie dimension has exactly one row for each distinct title the
\* provider resolved, in the order asked, and none for any other title.
C7_FactsKeptMoviesResolved ==
    /\ RevenueReturned =>
        /\ Len(fact_revenues_df) = Len(revenue_df)
        /\ \A i \in DOMAIN fact_revenues_df :
            /\ fact_revenues_df[i].id = revenue_df[i].id
            /\ fact_revenues_df[i].movie_id =
                    IntV(hash_seed[revenue_df[i].title] % (2 ^ HashBits))
    /\ MoviesReturned =>
        /\ FirstSeenOrder(requests_log,
                          [i \in DOMAIN revenue_df |-> revenue_df[i].title])
        /\ Len(dim_movies_df) = Len(ResolvedIndices)
        /\ \A k \in DOMAIN dim_movies_df :
            LET i == ResolvedIndices[k]
            IN  /\ dim_movies_df[k].movie_id =
                        IntV(hash_seed[requests_log[i]] % (2 ^ HashBits))
                /\ dim_movies_df[k].title = responses_log[i].json.Title

C7_Witness ==
    /\ MoviesReturned
    /\ Len(fact_revenues_df) = 2
    /\ Len(requests_log) = 2
    /\ ~Resolved(1) /\ Resolved(2)
    /\ Len(dim_movies_df) = 1
    /\ fact_revenues_df[1].movie_id # dim_movies_df[1].movie_id

\* C8: no cell of the movie dimension holds "N/A" or the empty string.
C8_NoSentinelCells ==
    MoviesReturned =>
        \A row \in Range(dim_movies_df) : \A c \in DOMAIN row :
            row[c] \notin {NA, EmptyStr}

C8_Witness ==
    /\ MoviesReturned
    /\ \E k \in DOMAIN movies_data :
        /\ movies_data[k].Director = NA
        /\ movies_data[k].Website = EmptyStr
        /\ dim_movies_df[k].director = None
        /\ dim_movies_df[k].website = None

\* the bridge rows the records call for: one for each non-empty genre
\* name of each record
BridgeRowsCalledFor ==
    Flatten([i \in DOMAIN movies_data |->
        SelectSeq(Split(GetD(movies_data[i], "Genre", EmptyStr).str, <<",", " ">>),
                  LAMBDA g : g # <<>>)])

\* C9: process_movies_data never rejects its input: whatever the records
\* (an empty or absent Genre, "N/A" fields), it returns without raising,
\* with one movie dimension row per record and bridge rows only for the
\* non-empty genre names.
C9_NeverRejects ==
    (pc \in {"save", "done", "aborted"} /\ raised # "DateParseError") =>
        /\ MoviesReturned
        /\ Len(dim_movies_df) = Len(movies_data)
        /\ Len(bridge_movie_genre_df) = Len(BridgeRowsCalledFor)

\* C10: run writes the tables one at a time in the fixed order; when a
\* write fails the run stops there, the tables written before it hold this
\* run's rows and the tables after it hold what they held before the run.
C10_NoRollbackNoLaterWrite ==
    /\ Len(write_log) <= Len(TableNames)
    /\ \A i \in DOMAIN write_log : write_log[i] = TableNames[i]
    /\ raised \in SaveErrors =>
        /\ pc = "aborted"
        /\ Len(write_log) = save_k + 1
        /\ \A j \in 1..save_k :
            store[TableNames[j]] =
                Table(cast_rows(TableSchemas[TableNames[j]], RunFrames[TableNames[j]]))
        /\ \A j \in (save_k + 2)..Len(TableNames) :
            store[TableNames[j]] = store0[TableNames[j]]

C10_Witness ==
    /\ raised \in SaveErrors
    /\ save_k = 2
    /\ store0 = StaleStore
    /\ store["dim_movies"] # store0["dim_movies"]
    /\ store["dim_genres"] # store0["dim_genres"]
    /\ store["fact_revenues"] = store0["fact_revenues"]

====
